---- MODULE Spec2Model ----
(***************************************************************************)
(* Model of the transcript worker: apps/worker/main.py (transcribe_task,   *)
(* send_webhook, validate_webhook_url, extract_audio, upload_results) and   *)
(* apps/worker/utils.py (format_timestamp, write_markdown).                 *)
(*                                                                          *)
(* One behaviour is one run of transcribe_task on one payload under one     *)
(* process environment. External collaborators (S3, ffprobe/ffmpeg,         *)
(* WhisperX, the webhook receiver) answer nondeterministically.             *)
(***************************************************************************)
EXTENDS Integers, Sequences, FiniteSets, TLC

VARIABLES
    job,        \* the payload handed to transcribe_task, as json.loads sees it
    env,        \* os.environ of the worker: WEBHOOK_URL, WEBHOOK_SECRET
    pc,         \* position of the run inside transcribe_task
    tmp,        \* the TemporaryDirectory: "none", "exists" or "removed"
    files,      \* local files that exist now (normalised absolute paths)
    written,    \* every local path the run has written so far
    audio,      \* wav_path handed to the speech models
    result,     \* the `result` variable (sequence of segments)
    aligned,    \* what whisperx.align returned (kept for comparison)
    rendered,   \* what write_markdown put into md_out
    diar,       \* how the diarization step went
    calls,      \* trace of collaborator calls, [op, ok, val]
    got,        \* s3.download_file invocations, [bucket, key]
    puts,       \* successful s3.upload_file calls, [bucket, key]
    hooks,      \* send_webhook invocations, see Hook
    exc,        \* the exception being handled, "none" if none
    failedAt,   \* the stage at which that exception was raised
    raised,     \* how transcribe_task ended: "none", "returned" or the exception
    http,       \* the request at the ingress endpoint and what enqueue did with it
    runs,       \* two concurrent transcribe_task runs, by run number
    bucket,     \* the S3 bucket they share: objects [key, by]
    disk        \* the local files they wrote: [path, by]

vars == <<job, env, pc, tmp, files, written, audio, result, aligned, rendered,
          diar, calls, got, puts, hooks, exc, failedAt, raised, http,
          runs, bucket, disk>>

\* the state outside the body of one transcribe_task run
outer == <<http, runs, bucket, disk>>

----------------------------------------------------------------------------
\* Bounds of the model

\* longest run of trailing "/" on WEBHOOK_URL
MaxSlashes == 2
\* most route segments on WEBHOOK_URL
MaxPath == 1
\* most segments a transcription returns
MaxSegs == 2
\* most words in a transcript handed to the renderer on its own
MaxWords == 3

----------------------------------------------------------------------------
\* Sequence helpers

Front(s) == SubSeq(s, 1, Len(s) - 1)

Last(s) == s[Len(s)]

RECURSIVE Repeat(_, _)
Repeat(x, n) == IF n = 0 THEN <<>> ELSE <<x>> \o Repeat(x, n - 1)

----------------------------------------------------------------------------
\* Local paths: a path is the sequence of its components from the root.

\* tempfile.TemporaryDirectory() of the run
TmpDir == <<"tmp", "tmpdir">>

\* What the OS makes of a path: ".." steps to the parent.
RECURSIVE Normalize(_)
Normalize(p) ==
    IF p = <<>> THEN <<>>
    ELSE LET head == Normalize(Front(p))
         IN  IF Last(p) = ".."
             THEN (IF head = <<>> THEN <<>> ELSE Front(head))
             ELSE Append(head, Last(p))

\* p lies inside the run's temporary directory
InTmp(p) ==
    /\ Len(Normalize(p)) > Len(TmpDir)
    /\ SubSeq(Normalize(p), 1, Len(TmpDir)) = TmpDir

\* directories that exist while the run's temporary directory exists
ExistingDirs == {<<>>, <<"tmp">>, TmpDir}

\* Path.write_text / open(..., "w") succeeds only in an existing directory
CanWrite(p) == Front(Normalize(p)) \in ExistingDirs

\* pathlib: Path(p).name
PathName(p) == Last(p)

\* tmp_dir / f"{job_id}<ext>": the suffix lands on the last component of job_id
OutPath(jid, ext) == TmpDir \o Front(jid) \o <<Last(jid) \o ext>>

\* f"results/{job_id}<ext>": the key scheme results/{job_id}.md, .json
ResultKey(jid, ext) == <<"results">> \o Front(jid) \o <<Last(jid) \o ext>>

\* upload_results: f"results/{md.name}"
UploadKey(p) == <<"results", PathName(p)>>

----------------------------------------------------------------------------
\* Job payloads

Mandatory == {"job_id", "s3_bucket", "object_key", "media_type"}

\* job_id values: a plain id, an id with a directory part, an id that climbs
JobIds == {<<"j1">>, <<"a", "j1">>, <<"..", "j1">>}

MediaTypes == {"audio", "video"}

Bucket == "b"

\* object_key "uploads/clip.mp4": Path(object_key).name is stem + ext
ObjectKey == [dirs |-> <<"uploads">>, stem |-> "clip", ext |-> ".mp4"]

ObjectKeyPath == ObjectKey.dirs \o <<ObjectKey.stem \o ObjectKey.ext>>

NoJob == [kind |-> "invalid", fields |-> {}, job_id |-> <<"j1">>,
          media_type |-> "audio", do_diarize |-> "absent"]

\* no HTTP request: the run was started directly
NoRequest == [body |-> NoJob, spawns |-> <<>>, answer |-> "none", code |-> 0]

\* JSON objects: any subset of the mandatory keys, do_diarize given or not
DictJobs ==
    {[kind |-> "dict", fields |-> f, job_id |-> j, media_type |-> m, do_diarize |-> d] :
        f \in SUBSET Mandatory, j \in JobIds, m \in MediaTypes,
        d \in {"absent", "true", "false"}}

\* a key that is absent has no value: keep one representative
Canonical(j) ==
    /\ ("job_id" \notin j.fields => j.job_id = <<"j1">>)
    /\ ("media_type" \notin j.fields => j.media_type = "audio")

\* kind: "invalid" is not JSON; "falsy" is null, [], "", 0; "truthy" is any
\* other JSON value that is not an object
Jobs ==
    {j \in DictJobs : Canonical(j)}
    \cup {[NoJob EXCEPT !.kind = k] : k \in {"invalid", "falsy", "truthy"}}

\* Python truthiness of the parsed payload (`if job:`)
Truthy(j) ==
    \/ j.kind = "truthy"
    \/ j.kind = "dict" /\ (j.fields # {} \/ j.do_diarize # "absent")

\* job.get("do_diarize", True)
DoDiarize(j) == j.do_diarize # "false"

----------------------------------------------------------------------------
\* WEBHOOK_URL as a string of lexical tokens: "https", ":", "/", "host", "seg"

\* The URLs the environment may hold: the unset/empty variable and strings of
\* slashes only (origin FALSE), or an origin followed by a route of `segs`
\* segments, each followed by `slashes` trailing "/".
Urls ==
    {u \in [origin : BOOLEAN, segs : 0..MaxPath, slashes : 0..MaxSlashes] :
        u.origin \/ u.segs = 0}

RECURSIVE RouteString(_)
RouteString(n) == IF n = 0 THEN <<>> ELSE <<"/", "seg">> \o RouteString(n - 1)

\* the string the environment holds for a URL
UrlString(u) ==
    (IF u.origin THEN <<"https", ":", "/", "/", "host">> ELSE <<>>)
    \o RouteString(u.segs)
    \o Repeat("/", u.slashes)

\* str.rstrip("/")
RECURSIVE RStripSlash(_)
RStripSlash(s) ==
    IF s # <<>> /\ Last(s) = "/" THEN RStripSlash(Front(s)) ELSE s

\* the tokens of s up to, not including, the first "/"
RECURSIVE UpToSlash(_)
UpToSlash(s) ==
    IF s = <<>> \/ Head(s) = "/" THEN <<>> ELSE <<Head(s)>> \o UpToSlash(Tail(s))

\* urllib.parse.urlparse(s).path: drop "scheme:", then "//netloc"
UrlPath(s) ==
    LET noScheme == IF Len(s) >= 2 /\ s[1] = "https" /\ s[2] = ":"
                    THEN SubSeq(s, 3, Len(s)) ELSE s
        hasNetloc == Len(noScheme) >= 2 /\ noScheme[1] = "/" /\ noScheme[2] = "/"
        afterSlashes == SubSeq(noScheme, 3, Len(noScheme))
    IN  IF hasNetloc
        THEN SubSeq(afterSlashes, Len(UpToSlash(afterSlashes)) + 1, Len(afterSlashes))
        ELSE noScheme

\* validate_webhook_url() without the trailing-slash strip
ValidateWebhookUrlNoStrip(s) ==
    IF s = <<>> THEN "WEBHOOK_URL env var missing"
    ELSE IF UrlPath(s) = <<>>
         THEN "WEBHOOK_URL must include route path"
         ELSE "ok"

\* validate_webhook_url(): "ok", or the RuntimeError it raises
ValidateWebhookUrl(s) ==
    LET webhook == RStripSlash(s)
    IN  IF webhook = <<>> THEN "WEBHOOK_URL env var missing"
        ELSE IF UrlPath(webhook) \in {<<>>, <<"/">>}
             THEN "WEBHOOK_URL must include route path"
             ELSE "ok"

Secrets == {"", "k"}

Envs == [url : Urls, secret : Secrets]

\* what the receiver does with one POST: a status code, or no answer at all
Responses == {"204", "200", "500", "timeout"}


\* json.dumps key order: insertion order of the dict literal, or sorted
PayloadKeys(payload, sorted) ==
    IF payload.status = "done"
    THEN (IF sorted THEN <<"job_id", "json_key", "md_key", "status">>
                    ELSE <<"job_id", "status", "md_key", "json_key">>)
    ELSE (IF sorted THEN <<"error", "job_id", "status">>
                    ELSE <<"job_id", "status", "error">>)

\* a path-like value as the characters between the quotes: "a/j1"
RECURSIVE SlashJoin(_)
SlashJoin(p) ==
    IF p = <<>> THEN <<>>
    ELSE IF Len(p) = 1 THEN p
    ELSE <<Head(p), "/">> \o SlashJoin(Tail(p))

\* the JSON text of one value of the payload
JsonValue(payload, key) ==
    <<"\"">>
    \o (CASE key = "job_id" -> SlashJoin(payload.job_id)
          [] key = "md_key" -> SlashJoin(payload.md_key)
          [] key = "json_key" -> SlashJoin(payload.json_key)
          [] key = "status" -> <<payload.status>>
          [] key = "error" -> <<payload.error>>)
    \o <<"\"">>

RECURSIVE JsonItems(_, _)
JsonItems(payload, keys) ==
    IF keys = <<>> THEN <<>>
    ELSE <<"\"", Head(keys), "\"", ": ">> \o JsonValue(payload, Head(keys))
         \o (IF Len(keys) > 1 THEN <<", ">> ELSE <<>>)
         \o JsonItems(payload, Tail(keys))

\* json.dumps(obj, sort_keys=sorted) with the default separators
JsonEncode(payload, sorted) ==
    <<"{">> \o JsonItems(payload, PayloadKeys(payload, sorted)) \o <<"}">>

\* line 274: payload_json = json.dumps(payload)
JsonDumps(payload) == JsonEncode(payload, FALSE)

\* line 291: the body requests builds for json=payload, which is
\* json.dumps(payload, allow_nan=False) encoded as UTF-8
RequestBody(payload) == JsonEncode(payload, FALSE)

\* hmac.new(key, msg, hashlib.sha256).hexdigest(), as an ideal MAC: equal
\* exactly when key and message are equal
HmacSha256(key, msg) == <<"hmac-sha256", key>> \o msg

\* the record of one send_webhook call: whether a POST was issued and how
\* many, the X-Modal-Signature header and the body sent, the receiver's
\* answer, and "ok" or the error raised
Hook(payload, e, resp, err) ==
    [payload |-> payload,
     posted |-> resp # "none",
     requests |-> IF resp # "none" THEN 1 ELSE 0,
     resp |-> resp,
     signature |-> IF resp # "none" THEN HmacSha256(e.secret, JsonDumps(payload)) ELSE <<>>,
     body |-> IF resp # "none" THEN RequestBody(payload) ELSE <<>>,
     err |-> err]

\* send_webhook with the lenient policy: any 2xx status counts as delivered
SendWebhookAny2xx(e, payload, resp) ==
    LET v == ValidateWebhookUrl(UrlString(e.url))
    IN  IF v # "ok" THEN Hook(payload, e, "none", v)
        ELSE IF e.secret = "" THEN Hook(payload, e, "none", "WEBHOOK_SECRET required")
        ELSE IF resp = "timeout" THEN Hook(payload, e, resp, "Webhook request failed")
        ELSE IF resp \notin {"204", "200"}
        THEN Hook(payload, e, resp, "Unexpected webhook status")
        ELSE Hook(payload, e, resp, "ok")

\* send_webhook signing a serialization with sorted keys while requests
\* sends the payload in insertion order
SendWebhookSignsSorted(e, payload, resp) ==
    LET v == ValidateWebhookUrl(UrlString(e.url))
        h == IF v # "ok" THEN Hook(payload, e, "none", v)
             ELSE IF e.secret = "" THEN Hook(payload, e, "none", "WEBHOOK_SECRET required")
             ELSE IF resp = "timeout" THEN Hook(payload, e, resp, "Webhook request failed")
             ELSE IF resp # "204" THEN Hook(payload, e, resp, "Unexpected webhook status")
             ELSE Hook(payload, e, resp, "ok")
    IN  IF h.posted
        THEN [h EXCEPT !.signature = HmacSha256(e.secret, JsonEncode(payload, TRUE))]
        ELSE h

\* send_webhook(payload) under environment e when the receiver would answer
\* resp
SendWebhook(e, payload, resp) ==
    LET v == ValidateWebhookUrl(UrlString(e.url))
    IN  IF v # "ok" THEN Hook(payload, e, "none", v)
        ELSE IF e.secret = "" THEN Hook(payload, e, "none", "WEBHOOK_SECRET required")
        ELSE IF resp = "timeout" THEN Hook(payload, e, resp, "Webhook request failed")
        ELSE IF resp # "204" THEN Hook(payload, e, resp, "Unexpected webhook status")
        ELSE Hook(payload, e, resp, "ok")

NoKey == <<>>

\* webhook_data of the success path
DonePayload(jid, mdKey, jsonKey) ==
    [job_id |-> jid, status |-> "done", md_key |-> mdKey, json_key |-> jsonKey,
     error |-> "none"]

\* error_webhook_data of the failure path
ErrorPayload(jid, msg) ==
    [job_id |-> jid, status |-> "error", md_key |-> NoKey, json_key |-> NoKey,
     error |-> msg]

----------------------------------------------------------------------------
\* Transcription results. A segment is [start, end, text, speaker, words], a
\* word is [text, start, speaker]; a text is the sequence of its characters;
\* times are in half seconds; speaker "ABSENT" is a dict without the
\* "speaker" key.

Speakers == {"S1", "S2"}

\* what model.transcribe returns for n segments: text and rough timing
RawSegment(i) ==
    [start |-> 4 * (i - 1), end |-> 4 * i - 1, text |-> <<"h", "i">>,
     speaker |-> "ABSENT", words |-> <<>>]

RawSegments(n) == [i \in 1..n |-> RawSegment(i)]

\* what whisperx.align returns: the same segments, each with its words
AlignSegments(segs) ==
    [i \in 1..Len(segs) |->
        [segs[i] EXCEPT !.words =
            <<[text |-> <<"h", "i">>, start |-> segs[i].start, speaker |-> "ABSENT"]>>]]

\* whisperx.assign_word_speakers having labelled the first k segments (and
\* their words) with lab[i]; k = Len(segs) is the completed call
AssignSpeakers(segs, lab, k) ==
    [i \in 1..Len(segs) |->
        IF i <= k
        THEN [segs[i] EXCEPT
                !.speaker = lab[i],
                !.words = [w \in 1..Len(segs[i].words) |->
                              [segs[i].words[w] EXCEPT !.speaker = lab[i]]]]
        ELSE segs[i]]

----------------------------------------------------------------------------
\* utils.py

\* the job timeout in seconds
TIMEOUT == 21600

DecimalDigits == <<"0", "1", "2", "3", "4", "5", "6", "7", "8", "9">>

\* str(n) for n >= 0
RECURSIVE Decimal(_)
Decimal(n) ==
    IF n < 10 THEN <<DecimalDigits[n + 1]>>
    ELSE Append(Decimal(n \div 10), DecimalDigits[(n % 10) + 1])

\* f"{n:02d}": at least two digits
Pad2(n) == IF n < 10 THEN <<"0">> \o Decimal(n) ELSE Decimal(n)

\* a timestamp with an hours field, HH:MM:SS
format_timestamp_hms(t) ==
    LET total == t \div 2
    IN  Pad2(total \div 3600) \o <<":">> \o Pad2((total \div 60) % 60)
        \o <<":">> \o Pad2(total % 60)

\* format_timestamp(seconds), t in half seconds: the characters of the
\* "mm:ss" string
format_timestamp(t) ==
    LET total == t \div 2
    IN  Pad2(total \div 60) \o <<":">> \o Pad2(total % 60)

\* str.strip()
RECURSIVE LStrip(_)
LStrip(s) == IF s # <<>> /\ Head(s) = " " THEN LStrip(Tail(s)) ELSE s

RECURSIVE RStrip(_)
RStrip(s) == IF s # <<>> /\ Last(s) = " " THEN RStrip(Front(s)) ELSE s

Strip(s) == LStrip(RStrip(s))

\* " ".join(texts)
RECURSIVE SpaceJoin(_)
SpaceJoin(texts) ==
    IF texts = <<>> THEN <<>>
    ELSE IF Len(texts) = 1 THEN Head(texts)
    ELSE Head(texts) \o <<" ">> \o SpaceJoin(Tail(texts))

\* a renderer that lets a word without a label inherit its segment's label
RECURSIVE FlatWordsInherit(_)
FlatWordsInherit(segs) ==
    IF segs = <<>> THEN <<>>
    ELSE [i \in 1..Len(Head(segs).words) |->
            IF Head(segs).words[i].speaker = "ABSENT"
            THEN [Head(segs).words[i] EXCEPT !.speaker = Head(segs).speaker]
            ELSE Head(segs).words[i]]
         \o FlatWordsInherit(Tail(segs))

\* for segment in segments: for word in words
RECURSIVE FlatWords(_)
FlatWords(segs) ==
    IF segs = <<>> THEN <<>> ELSE Head(segs).words \o FlatWords(Tail(segs))

\* word.get("speaker", "UNKNOWN")
WordSpeaker(w) == IF w.speaker = "ABSENT" THEN "UNKNOWN" ELSE w.speaker

\* the line appended for a finished paragraph:
\* f"\n[{timestamp}] {speaker_label}: {paragraph_text}\n"
Paragraph(speaker, para, start) ==
    [ts |-> format_timestamp(start),
     label |-> IF speaker = "" THEN "UNKNOWN" ELSE speaker,
     words |-> para,
     text |-> SpaceJoin(para)]

\* the word loop that opens a paragraph at every word, merging nothing
RECURSIVE WordLoopNoMerge(_, _)
WordLoopNoMerge(ws, st) ==
    IF ws = <<>> THEN st
    ELSE LET w == Head(ws)
             text == Strip(w.text)
         IN  IF text = <<>> THEN WordLoopNoMerge(Tail(ws), st)
             ELSE WordLoopNoMerge(Tail(ws),
                    [speaker |-> WordSpeaker(w),
                     para |-> <<text>>,
                     start |-> w.start,
                     lines |-> IF st.para # <<>> /\ st.start # -1
                               THEN Append(st.lines,
                                           Paragraph(st.speaker, st.para, st.start))
                               ELSE st.lines])

\* the word loop of write_markdown; st is [speaker, para, start, lines], with
\* speaker "None" and start -1 for Python's None
RECURSIVE WordLoop(_, _)
WordLoop(ws, st) ==
    IF ws = <<>> THEN st
    ELSE LET w == Head(ws)
             text == Strip(w.text)
         IN  IF text = <<>> THEN WordLoop(Tail(ws), st)
             ELSE IF WordSpeaker(w) # st.speaker
             THEN WordLoop(Tail(ws),
                    [speaker |-> WordSpeaker(w),
                     para |-> <<text>>,
                     start |-> w.start,
                     lines |-> IF st.para # <<>> /\ st.start # -1
                               THEN Append(st.lines,
                                           Paragraph(st.speaker, st.para, st.start))
                               ELSE st.lines])
             ELSE WordLoop(Tail(ws), [st EXCEPT !.para = Append(@, text)])

\* the "Duration" of the metadata when there is no segment
NotAvailable == <<"N", "/", "A">>

NoDoc == [paras |-> <<>>, total |-> -1, duration |-> <<>>]

\* write_markdown that refuses a transcript without segments
write_markdown_rejects_empty(segs) ==
    LET st == WordLoop(FlatWords(segs),
                       [speaker |-> "None", para |-> <<>>, start |-> -1, lines |-> <<>>])
        lines == IF st.para # <<>> /\ st.start # -1
                 THEN Append(st.lines, Paragraph(st.speaker, st.para, st.start))
                 ELSE st.lines
    IN  IF segs = <<>> THEN NoDoc
        ELSE [paras |-> lines,
              total |-> Len(segs),
              duration |-> format_timestamp(Last(segs).end)]

\* write_markdown whose "Duration" is the span from the start of the first
\* segment to the end of the last
write_markdown_span(segs) ==
    LET st == WordLoop(FlatWords(segs),
                       [speaker |-> "None", para |-> <<>>, start |-> -1, lines |-> <<>>])
        lines == IF st.para # <<>> /\ st.start # -1
                 THEN Append(st.lines, Paragraph(st.speaker, st.para, st.start))
                 ELSE st.lines
    IN  [paras |-> lines,
         total |-> Len(segs),
         duration |-> IF segs # <<>>
                      THEN format_timestamp(Last(segs).end - Head(segs).start)
                      ELSE NotAvailable]

\* write_markdown(transcript_data, output_path): the document written
write_markdown(segs) ==
    LET st == WordLoop(FlatWords(segs),
                       [speaker |-> "None", para |-> <<>>, start |-> -1, lines |-> <<>>])
        lines == IF st.para # <<>> /\ st.start # -1
                 THEN Append(st.lines, Paragraph(st.speaker, st.para, st.start))
                 ELSE st.lines
    IN  [paras |-> lines,
         total |-> Len(segs),
         duration |-> IF segs # <<>> THEN format_timestamp(Last(segs).end)
                      ELSE NotAvailable]


----------------------------------------------------------------------------
\* transcribe_task

\* a collaborator call: ok is whether it returned normally
Call(op, ok) == [op |-> op, ok |-> ok, val |-> ""]

\* the ffprobe audio-stream probe: ok is whether ffprobe ran and exited
\* with success, val is what has_audio_stream returned ("audio": True,
\* "none": False) or "raised" when ffprobe could not be started
Probe(ok, val) == [op |-> "probe", ok |-> ok, val |-> val]

\* tmp_dir / Path(job["object_key"]).name
MediaIn == TmpDir \o <<ObjectKey.stem \o ObjectKey.ext>>

\* tmp_dir / (media_in.stem + ".wav")
WavPath == TmpDir \o <<ObjectKey.stem \o ".wav">>

MdOut == OutPath(job.job_id, ".md")

JsonOut == OutPath(job.job_id, ".json")

NoAudioTrack == "Input video does not contain an audio track"

Init ==
    /\ job \in Jobs
    /\ env \in Envs
    /\ pc = "parse"
    /\ tmp = "none"
    /\ files = {}
    /\ written = {}
    /\ audio = <<>>
    /\ result = <<>>
    /\ aligned = <<>>
    /\ rendered = NoDoc
    /\ diar = "not run"
    /\ calls = <<>>
    /\ got = <<>>
    /\ puts = <<>>
    /\ hooks = <<>>
    /\ exc = "none"
    /\ failedAt = "none"
    /\ raised = "none"
    /\ http = NoRequest
    /\ runs = <<>>
    /\ bucket = {}
    /\ disk = {}

\* An exception raised at `stage` leaves the `with` block (the temporary
\* directory, if created, is removed with all it holds) and reaches
\* `except Exception`. fs: the local files at that moment.
Abort(stage, msg, fs) ==
    /\ pc' = "handler"
    /\ exc' = msg
    /\ failedAt' = stage
    /\ tmp' = IF stage = "parse" THEN "none" ELSE "removed"
    /\ files' = {f \in fs : ~InTmp(f)}
    /\ raised' = "none"

\* The stage completed; the run goes on at `next`.
Goto(next) ==
    /\ pc' = next
    /\ tmp' = "exists"
    /\ UNCHANGED <<exc, failedAt, raised>>

\* Parse with an `except json.JSONDecodeError` that logs and returns
ParseSwallowsInvalid ==
    /\ pc = "parse"
    /\ UNCHANGED outer
    /\ UNCHANGED <<job, env, written, audio, result, aligned, rendered, diar,
                   calls, got, puts, hooks>>
    /\ \/ /\ job.kind = "invalid"
          /\ pc' = "done"
          /\ exc' = "JSONDecodeError"
          /\ raised' = "returned"
          /\ UNCHANGED <<tmp, files, failedAt>>
       \/ /\ job.kind \in {"falsy", "truthy"}
          /\ Abort("parse", "AttributeError", files)
       \/ /\ job.kind = "dict"
          /\ pc' = "setup"
          /\ UNCHANGED <<tmp, files, exc, failedAt, raised>>

\* lines 333-338 and 517-519: json.loads, job.get("job_id", "unknown")
Parse ==
    /\ pc = "parse"
    /\ UNCHANGED outer
    /\ UNCHANGED <<job, env, written, audio, result, aligned, rendered, diar,
                   calls, got, puts, hooks>>
    /\ \/ /\ job.kind = "invalid"
          /\ pc' = "done"
          /\ exc' = "JSONDecodeError"
          /\ raised' = "JSONDecodeError"
          /\ UNCHANGED <<tmp, files, failedAt>>
       \/ /\ job.kind \in {"falsy", "truthy"}
          /\ Abort("parse", "AttributeError", files)
       \/ /\ job.kind = "dict"
          /\ pc' = "setup"
          /\ UNCHANGED <<tmp, files, exc, failedAt, raised>>

\* lines 340-348: the temporary directory and the local paths
Setup ==
    /\ pc = "setup"
    /\ UNCHANGED outer
    /\ UNCHANGED <<job, env, written, audio, result, aligned, rendered, diar,
                   calls, got, puts, hooks>>
    /\ \/ /\ "object_key" \notin job.fields
          /\ Abort("setup", "KeyError: object_key", files)
       \/ /\ "object_key" \in job.fields
          /\ Goto("fetch")
          /\ UNCHANGED files

\* lines 350-352, download_from_s3
Fetch ==
    /\ pc = "fetch"
    /\ UNCHANGED outer
    /\ UNCHANGED <<job, env, audio, result, aligned, rendered, diar, puts, hooks>>
    /\ \/ /\ "s3_bucket" \notin job.fields
          /\ Abort("fetch", "KeyError: s3_bucket", files)
          /\ UNCHANGED <<written, calls, got>>
       \/ /\ "s3_bucket" \in job.fields
          /\ \/ /\ Abort("fetch", "Missing AWS credentials", files)
                /\ UNCHANGED <<written, calls, got>>
             \/ /\ calls' = Append(calls, Call("download", FALSE))
                /\ got' = Append(got, [bucket |-> Bucket, key |-> ObjectKeyPath])
                /\ Abort("fetch", "download failed", files)
                /\ UNCHANGED written
             \/ /\ calls' = Append(calls, Call("download", TRUE))
                /\ got' = Append(got, [bucket |-> Bucket, key |-> ObjectKeyPath])
                /\ files' = files \cup {MediaIn}
                /\ written' = written \cup {MediaIn}
                /\ Goto("prepare")

\* PrepareAudio with an extract_audio that runs ffmpeg whatever the probe said
PrepareAudioIgnoresProbe ==
    /\ pc = "prepare"
    /\ UNCHANGED outer
    /\ UNCHANGED <<job, env, result, aligned, rendered, diar, got, puts, hooks>>
    /\ \/ /\ "media_type" \notin job.fields
          /\ Abort("prepare", "KeyError: media_type", files)
          /\ UNCHANGED <<written, audio, calls>>
       \/ /\ "media_type" \in job.fields
          /\ job.media_type = "video"
          /\ \E probeRan \in BOOLEAN, val \in {"audio", "none"} :
                /\ probeRan \/ val = "none"
                /\ \/ /\ calls' = calls \o <<Probe(probeRan, val), Call("extract", FALSE)>>
                      /\ Abort("prepare", "ffmpeg failed", files)
                      /\ UNCHANGED <<written, audio>>
                   \/ /\ calls' = calls \o <<Probe(probeRan, val), Call("extract", TRUE),
                                             Call("duration", TRUE)>>
                      /\ files' = files \cup {WavPath}
                      /\ written' = written \cup {WavPath}
                      /\ audio' = WavPath
                      /\ Goto("transcribe")
       \/ /\ "media_type" \in job.fields
          /\ job.media_type # "video"
          /\ calls' = Append(calls, Call("duration", TRUE))
          /\ audio' = MediaIn
          /\ Goto("transcribe")
          /\ UNCHANGED <<files, written>>

\* PrepareAudio with a has_audio_stream that lets a failed ffprobe raise
PrepareAudioProbeRaises ==
    /\ pc = "prepare"
    /\ UNCHANGED outer
    /\ UNCHANGED <<job, env, result, aligned, rendered, diar, got, puts, hooks>>
    /\ \/ /\ "media_type" \notin job.fields
          /\ Abort("prepare", "KeyError: media_type", files)
          /\ UNCHANGED <<written, audio, calls>>
       \/ /\ "media_type" \in job.fields
          /\ job.media_type = "video"
          /\ \/ /\ calls' = Append(calls, Probe(TRUE, "none"))
                /\ Abort("prepare", NoAudioTrack, files)
                /\ UNCHANGED <<written, audio>>
             \/ /\ calls' = Append(calls, Probe(FALSE, "none"))
                /\ Abort("prepare", "ffprobe failed", files)
                /\ UNCHANGED <<written, audio>>
             \/ /\ calls' = Append(calls, Probe(FALSE, "raised"))
                /\ Abort("prepare", "ffprobe could not be run", files)
                /\ UNCHANGED <<written, audio>>
             \/ /\ calls' = calls \o <<Probe(TRUE, "audio"), Call("extract", FALSE)>>
                /\ Abort("prepare", "ffmpeg failed", files)
                /\ UNCHANGED <<written, audio>>
             \/ /\ calls' = calls \o <<Probe(TRUE, "audio"), Call("extract", TRUE),
                                       Call("duration", TRUE)>>
                /\ files' = files \cup {WavPath}
                /\ written' = written \cup {WavPath}
                /\ audio' = WavPath
                /\ Goto("transcribe")
       \/ /\ "media_type" \in job.fields
          /\ job.media_type # "video"
          /\ calls' = Append(calls, Call("duration", TRUE))
          /\ audio' = MediaIn
          /\ Goto("transcribe")
          /\ UNCHANGED <<files, written>>

\* lines 354-366, extract_audio, has_audio_stream, get_audio_duration
PrepareAudio ==
    /\ pc = "prepare"
    /\ UNCHANGED outer
    /\ UNCHANGED <<job, env, result, aligned, rendered, diar, got, puts, hooks>>
    /\ \/ /\ "media_type" \notin job.fields
          /\ Abort("prepare", "KeyError: media_type", files)
          /\ UNCHANGED <<written, audio, calls>>
       \/ /\ "media_type" \in job.fields
          /\ job.media_type = "video"
          /\ \/ \E probeRan \in BOOLEAN :
                   /\ calls' = Append(calls, Probe(probeRan, "none"))
                   /\ Abort("prepare", NoAudioTrack, files)
                   /\ UNCHANGED <<written, audio>>
             \/ /\ calls' = Append(calls, Probe(FALSE, "raised"))
                /\ Abort("prepare", "ffprobe could not be run", files)
                /\ UNCHANGED <<written, audio>>
             \/ /\ calls' = calls \o <<Probe(TRUE, "audio"), Call("extract", FALSE)>>
                /\ Abort("prepare", "ffmpeg failed", files)
                /\ UNCHANGED <<written, audio>>
             \/ /\ calls' = calls \o <<Probe(TRUE, "audio"), Call("extract", TRUE),
                                       Call("duration", TRUE)>>
                /\ files' = files \cup {WavPath}
                /\ written' = written \cup {WavPath}
                /\ audio' = WavPath
                /\ Goto("transcribe")
       \/ /\ "media_type" \in job.fields
          /\ job.media_type # "video"
          /\ calls' = Append(calls, Call("duration", TRUE))
          /\ audio' = MediaIn
          /\ Goto("transcribe")
          /\ UNCHANGED <<files, written>>

\* lines 368-403: whisperx.load_model, model.transcribe
Transcribe ==
    /\ pc = "transcribe"
    /\ UNCHANGED outer
    /\ UNCHANGED <<job, env, written, audio, aligned, rendered, diar, got, puts, hooks>>
    /\ \/ /\ calls' = Append(calls, Call("load_model", FALSE))
          /\ Abort("transcribe", "load_model failed", files)
          /\ UNCHANGED result
       \/ /\ calls' = calls \o <<Call("load_model", TRUE), Call("transcribe", FALSE)>>
          /\ Abort("transcribe", "transcribe failed", files)
          /\ UNCHANGED result
       \/ \E n \in 0..MaxSegs :
             /\ calls' = calls \o <<Call("load_model", TRUE), Call("transcribe", TRUE)>>
             /\ result' = RawSegments(n)
             /\ Goto("align")
             /\ UNCHANGED files

\* Align with the failure policy of the diarization step: log and continue
AlignContinues ==
    /\ pc = "align"
    /\ UNCHANGED outer
    /\ UNCHANGED <<job, env, written, audio, rendered, diar, got, puts, hooks>>
    /\ Goto("diarize")
    /\ UNCHANGED files
    /\ \/ /\ calls' = Append(calls, Call("load_align_model", FALSE))
          /\ UNCHANGED <<result, aligned>>
       \/ /\ calls' = calls \o <<Call("load_align_model", TRUE), Call("align", FALSE)>>
          /\ UNCHANGED <<result, aligned>>
       \/ /\ calls' = calls \o <<Call("load_align_model", TRUE), Call("align", TRUE)>>
          /\ result' = AlignSegments(result)
          /\ aligned' = AlignSegments(result)

\* lines 405-424: whisperx.load_align_model, whisperx.align
Align ==
    /\ pc = "align"
    /\ UNCHANGED outer
    /\ UNCHANGED <<job, env, written, audio, rendered, diar, got, puts, hooks>>
    /\ \/ /\ calls' = Append(calls, Call("load_align_model", FALSE))
          /\ Abort("align", "load_align_model failed", files)
          /\ UNCHANGED <<result, aligned>>
       \/ /\ calls' = calls \o <<Call("load_align_model", TRUE), Call("align", FALSE)>>
          /\ Abort("align", "align failed", files)
          /\ UNCHANGED <<result, aligned>>
       \/ /\ calls' = calls \o <<Call("load_align_model", TRUE), Call("align", TRUE)>>
          /\ result' = AlignSegments(result)
          /\ aligned' = AlignSegments(result)
          /\ Goto("diarize")
          /\ UNCHANGED files

\* the diarization step without the `if do_diarize:` test
DiarizeAlways ==
    /\ pc = "diarize"
    /\ UNCHANGED outer
    /\ UNCHANGED <<job, env, files, written, audio, aligned, rendered, got, puts, hooks>>
    /\ Goto("render")
    /\ \/ /\ diar' = "no token"
          /\ UNCHANGED <<result, calls>>
       \/ /\ diar' = "pipeline failed"
          /\ calls' = Append(calls, Call("DiarizationPipeline", FALSE))
          /\ UNCHANGED result
       \/ /\ diar' = "diarize failed"
          /\ calls' = calls \o <<Call("DiarizationPipeline", TRUE),
                                 Call("diarize", FALSE)>>
          /\ UNCHANGED result
       \/ \E lab \in [1..Len(result) -> Speakers], k \in 0..Len(result) :
             /\ k = 0 \/ k < Len(result)
             /\ diar' = "assign failed"
             /\ calls' = calls \o <<Call("DiarizationPipeline", TRUE),
                                    Call("diarize", TRUE),
                                    Call("assign_word_speakers", FALSE)>>
             /\ result' = AssignSpeakers(result, lab, k)
       \/ \E lab \in [1..Len(result) -> Speakers] :
             /\ diar' = "ok"
             /\ calls' = calls \o <<Call("DiarizationPipeline", TRUE),
                                    Call("diarize", TRUE),
                                    Call("assign_word_speakers", TRUE)>>
             /\ result' = AssignSpeakers(result, lab, Len(result))

\* lines 426-467: optional diarization; every failure inside is swallowed.
\* assign_word_speakers is handed `result` itself, so a failure inside it can
\* leave the first k segments labelled.
Diarize ==
    /\ pc = "diarize"
    /\ UNCHANGED outer
    /\ UNCHANGED <<job, env, files, written, audio, aligned, rendered, got, puts, hooks>>
    /\ Goto("render")
    /\ \/ /\ ~DoDiarize(job)
          /\ diar' = "skipped"
          /\ UNCHANGED <<result, calls>>
       \/ /\ DoDiarize(job)
          /\ \/ /\ diar' = "no token"
                /\ UNCHANGED <<result, calls>>
             \/ /\ diar' = "pipeline failed"
                /\ calls' = Append(calls, Call("DiarizationPipeline", FALSE))
                /\ UNCHANGED result
             \/ /\ diar' = "diarize failed"
                /\ calls' = calls \o <<Call("DiarizationPipeline", TRUE),
                                       Call("diarize", FALSE)>>
                /\ UNCHANGED result
             \/ \E lab \in [1..Len(result) -> Speakers], k \in 0..Len(result) :
                   /\ k = 0 \/ k < Len(result)
                   /\ diar' = "assign failed"
                   /\ calls' = calls \o <<Call("DiarizationPipeline", TRUE),
                                          Call("diarize", TRUE),
                                          Call("assign_word_speakers", FALSE)>>
                   /\ result' = AssignSpeakers(result, lab, k)
             \/ \E lab \in [1..Len(result) -> Speakers] :
                   /\ diar' = "ok"
                   /\ calls' = calls \o <<Call("DiarizationPipeline", TRUE),
                                          Call("diarize", TRUE),
                                          Call("assign_word_speakers", TRUE)>>
                   /\ result' = AssignSpeakers(result, lab, Len(result))

\* lines 469-496: write_markdown(result, md_out), json_out.write_text(...)
Render ==
    /\ pc = "render"
    /\ UNCHANGED outer
    /\ UNCHANGED <<job, env, audio, result, aligned, diar, calls, got, puts, hooks>>
    /\ \/ /\ "job_id" \notin job.fields
          /\ Abort("render", "KeyError: job_id", files)
          /\ UNCHANGED <<written, rendered>>
       \/ /\ "job_id" \in job.fields
          /\ ~CanWrite(MdOut)
          /\ Abort("render", "FileNotFoundError", files)
          /\ UNCHANGED <<written, rendered>>
       \/ /\ "job_id" \in job.fields
          /\ CanWrite(MdOut)
          /\ \/ /\ Abort("render", "OSError", files)
                /\ UNCHANGED <<written, rendered>>
             \/ /\ written' = written \cup {Normalize(MdOut)}
                /\ rendered' = write_markdown(result)
                /\ Abort("render", "OSError", files \cup {Normalize(MdOut)})
             \/ /\ written' = written \cup {Normalize(MdOut), Normalize(JsonOut)}
                /\ rendered' = write_markdown(result)
                /\ files' = files \cup {Normalize(MdOut), Normalize(JsonOut)}
                /\ Goto("persist")

\* Persist with a JSON upload whose failure is not raised
PersistIgnoresJsonFailure ==
    /\ pc = "persist"
    /\ UNCHANGED outer
    /\ UNCHANGED <<job, env, written, audio, result, aligned, rendered, diar, got, hooks>>
    /\ \/ /\ Abort("persist", "Missing AWS credentials", files)
          /\ UNCHANGED <<calls, puts>>
       \/ /\ calls' = Append(calls, Call("upload_md", FALSE))
          /\ Abort("persist", "upload failed", files)
          /\ UNCHANGED puts
       \/ /\ calls' = calls \o <<Call("upload_md", TRUE), Call("upload_json", FALSE)>>
          /\ puts' = Append(puts, [bucket |-> Bucket, key |-> UploadKey(MdOut)])
          /\ Goto("notify")
          /\ UNCHANGED files
       \/ /\ calls' = calls \o <<Call("upload_md", TRUE), Call("upload_json", TRUE)>>
          /\ puts' = puts \o <<[bucket |-> Bucket, key |-> UploadKey(MdOut)],
                               [bucket |-> Bucket, key |-> UploadKey(JsonOut)]>>
          /\ Goto("notify")
          /\ UNCHANGED files

\* lines 498-500, upload_results(job["s3_bucket"], md_out, json_out)
Persist ==
    /\ pc = "persist"
    /\ UNCHANGED outer
    /\ UNCHANGED <<job, env, written, audio, result, aligned, rendered, diar, got, hooks>>
    /\ \/ /\ Abort("persist", "Missing AWS credentials", files)
          /\ UNCHANGED <<calls, puts>>
       \/ /\ calls' = Append(calls, Call("upload_md", FALSE))
          /\ Abort("persist", "upload failed", files)
          /\ UNCHANGED puts
       \/ /\ calls' = calls \o <<Call("upload_md", TRUE), Call("upload_json", FALSE)>>
          /\ puts' = Append(puts, [bucket |-> Bucket, key |-> UploadKey(MdOut)])
          /\ Abort("persist", "upload failed", files)
       \/ /\ calls' = calls \o <<Call("upload_md", TRUE), Call("upload_json", TRUE)>>
          /\ puts' = puts \o <<[bucket |-> Bucket, key |-> UploadKey(MdOut)],
                               [bucket |-> Bucket, key |-> UploadKey(JsonOut)]>>
          /\ Goto("notify")
          /\ UNCHANGED files

\* lines 502-515: the "done" webhook; md_key, json_key are what
\* upload_results returned
NotifyDone ==
    /\ pc = "notify"
    /\ UNCHANGED outer
    /\ UNCHANGED <<job, env, written, audio, result, aligned, rendered, diar,
                   calls, got, puts>>
    /\ \E resp \in Responses :
          LET h == SendWebhook(env,
                               DonePayload(job.job_id, UploadKey(MdOut), UploadKey(JsonOut)),
                               resp)
          IN  /\ hooks' = Append(hooks, h)
              /\ \/ /\ h.err = "ok"
                    /\ pc' = "done"
                    /\ tmp' = "removed"
                    /\ files' = {f \in files : ~InTmp(f)}
                    /\ raised' = "returned"
                    /\ UNCHANGED <<exc, failedAt>>
                 \/ /\ h.err # "ok"
                    /\ Abort("notify", h.err, files)

\* HandleError without the inner try/except: a failed error webhook escapes
HandleErrorEscalates ==
    /\ pc = "handler"
    /\ UNCHANGED outer
    /\ pc' = "done"
    /\ UNCHANGED <<job, env, tmp, files, written, audio, result, aligned, rendered,
                   diar, calls, got, puts, exc, failedAt>>
    /\ \/ /\ job.kind = "truthy"
          /\ raised' = "AttributeError in handler"
          /\ UNCHANGED hooks
       \/ /\ ~Truthy(job)
          /\ raised' = exc
          /\ UNCHANGED hooks
       \/ /\ job.kind = "dict"
          /\ Truthy(job)
          /\ "job_id" \notin job.fields
          /\ raised' = "KeyError: job_id"
          /\ UNCHANGED hooks
       \/ /\ job.kind = "dict"
          /\ "job_id" \in job.fields
          /\ \E resp \in Responses :
                LET h == SendWebhook(env, ErrorPayload(job.job_id, exc), resp)
                IN  /\ hooks' = Append(hooks, h)
                    /\ raised' = IF h.err = "ok" THEN exc ELSE h.err

\* HandleError without the final `raise` once the error webhook got its 204
HandleErrorAbsorbs ==
    /\ pc = "handler"
    /\ UNCHANGED outer
    /\ pc' = "done"
    /\ UNCHANGED <<job, env, tmp, files, written, audio, result, aligned, rendered,
                   diar, calls, got, puts, exc, failedAt>>
    /\ \/ /\ job.kind = "truthy"
          /\ raised' = "AttributeError in handler"
          /\ UNCHANGED hooks
       \/ /\ ~Truthy(job)
          /\ raised' = exc
          /\ UNCHANGED hooks
       \/ /\ job.kind = "dict"
          /\ Truthy(job)
          /\ "job_id" \notin job.fields
          /\ raised' = exc
          /\ UNCHANGED hooks
       \/ /\ job.kind = "dict"
          /\ "job_id" \in job.fields
          /\ \E resp \in Responses :
                LET h == SendWebhook(env, ErrorPayload(job.job_id, exc), resp)
                IN  /\ hooks' = Append(hooks, h)
                    /\ raised' = IF h.err = "ok" THEN "returned" ELSE exc

\* lines 520-539: `except Exception`: the "error" webhook, then `raise`
HandleError ==
    /\ pc = "handler"
    /\ UNCHANGED outer
    /\ pc' = "done"
    /\ UNCHANGED <<job, env, tmp, files, written, audio, result, aligned, rendered,
                   diar, calls, got, puts, exc, failedAt>>
    /\ \/ /\ job.kind = "truthy"
          /\ raised' = "AttributeError in handler"
          /\ UNCHANGED hooks
       \/ /\ ~Truthy(job)
          /\ raised' = exc
          /\ UNCHANGED hooks
       \/ /\ job.kind = "dict"
          /\ Truthy(job)
          /\ "job_id" \notin job.fields
          /\ raised' = exc
          /\ UNCHANGED hooks
       \/ /\ job.kind = "dict"
          /\ "job_id" \in job.fields
          /\ raised' = exc
          /\ \E resp \in Responses :
                hooks' = Append(hooks, SendWebhook(env, ErrorPayload(job.job_id, exc), resp))

Next ==
    \/ Parse
    \/ Setup
    \/ Fetch
    \/ PrepareAudio
    \/ Transcribe
    \/ Align
    \/ Diarize
    \/ Render
    \/ Persist
    \/ NotifyDone
    \/ HandleError

Spec == Init /\ [][Next]_vars

----------------------------------------------------------------------------
\* enqueue: the ingress endpoint, and the run it spawns

\* what enqueue answers
Answer(h, answer, code) == [h EXCEPT !.answer = answer, !.code = code]

\* transcribe_task.spawn(arg): whether Modal accepted the call
Spawn(h, arg, ok) == [h EXCEPT !.spawns = Append(@, [arg |-> arg, ok |-> ok])]

\* a request with body b arrives; nothing has run yet
InitIngress ==
    /\ http \in {[NoRequest EXCEPT !.body = b] : b \in Jobs}
    /\ job = NoJob
    /\ env \in Envs
    /\ pc = "ingress"
    /\ tmp = "none"
    /\ files = {}
    /\ written = {}
    /\ audio = <<>>
    /\ result = <<>>
    /\ aligned = <<>>
    /\ rendered = NoDoc
    /\ diar = "not run"
    /\ calls = <<>>
    /\ got = <<>>
    /\ puts = <<>>
    /\ hooks = <<>>
    /\ exc = "none"
    /\ failedAt = "none"
    /\ raised = "none"
    /\ runs = <<>>
    /\ bucket = {}
    /\ disk = {}

\* lines 542-576: json.loads(body), job_data.get("job_id", "unknown"),
\* transcribe_task.spawn(body), the answer
Enqueue ==
    /\ pc = "ingress"
    /\ UNCHANGED <<runs, bucket, disk>>
    /\ UNCHANGED <<env, tmp, files, written, audio, result, aligned, rendered,
                   diar, calls, got, puts, hooks, exc, failedAt, raised>>
    /\ \/ /\ http.body.kind = "invalid"
          /\ http' = Answer(http, "Invalid JSON", 400)
          /\ pc' = "rejected"
          /\ UNCHANGED job
       \/ /\ http.body.kind \in {"falsy", "truthy"}
          \* job_data.get raises AttributeError, caught by `except Exception`
          /\ http' = Answer(http, "Internal server error", 500)
          /\ pc' = "rejected"
          /\ UNCHANGED job
       \/ /\ http.body.kind = "dict"
          /\ \/ /\ http' = Answer(Spawn(http, http.body, TRUE), "queued", 202)
                /\ job' = http.body
                /\ pc' = "parse"
             \/ /\ http' = Answer(Spawn(http, http.body, FALSE), "Internal server error", 500)
                /\ pc' = "rejected"
                /\ UNCHANGED job

NextIngress ==
    \/ Enqueue
    \/ Next

SpecIngress == InitIngress /\ [][NextIngress]_vars

----------------------------------------------------------------------------
\* Two runs of transcribe_task at the same time on one bucket. Each run is
\* followed through the steps that write: the temporary directory, the two
\* output files, the two uploads, the webhook.

PairRuns == {1, 2}

\* job_id values of the two runs: JobIds and a second plain id
PairJobIds == JobIds \cup {<<"j2">>}

\* tempfile.TemporaryDirectory(): mkdtemp gives every run a fresh name
TmpDirOf(r) == <<"tmp", IF r = 1 THEN "tmpdir1" ELSE "tmpdir2">>

\* tmp_dir / f"{job_id}<ext>" of run r
PairOut(r, ext) ==
    TmpDirOf(r) \o Front(runs[r].job_id) \o <<Last(runs[r].job_id) \o ext>>

\* directories that exist now
PairDirs == {<<>>, <<"tmp">>} \cup {TmpDirOf(q) : q \in {q \in PairRuns : runs[q].tmp = "exists"}}

\* an object or file written by run r replaces what was there
Put(objs, name, r) == {o \in objs : o.name # name} \cup {[name |-> name, by |-> r]}

\* leaving the `with` block removes the run's directory and all it holds
Cleanup(objs, r) ==
    {f \in objs : ~(Len(f.name) > 2 /\ SubSeq(f.name, 1, 2) = TmpDirOf(r))}

NewRun(jid) == [job_id |-> jid, pc |-> "setup", tmp |-> "none", wrote |-> {},
                keys |-> {}, hook |-> "none", md_key |-> <<>>, json_key |-> <<>>]

InitPair ==
    /\ runs \in {<<NewRun(a), NewRun(b)>> : a \in PairJobIds, b \in PairJobIds}
    /\ runs[1].job_id # runs[2].job_id
    /\ bucket = {}
    /\ disk = {}
    /\ job = NoJob
    /\ env = [url |-> [origin |-> TRUE, segs |-> 1, slashes |-> 0], secret |-> "k"]
    /\ pc = "pair"
    /\ tmp = "none"
    /\ files = {}
    /\ written = {}
    /\ audio = <<>>
    /\ result = <<>>
    /\ aligned = <<>>
    /\ rendered = NoDoc
    /\ diar = "not run"
    /\ calls = <<>>
    /\ got = <<>>
    /\ puts = <<>>
    /\ hooks = <<>>
    /\ exc = "none"
    /\ failedAt = "none"
    /\ raised = "none"
    /\ http = NoRequest

\* the variables of the single run stay as they are
Solo == <<job, env, pc, tmp, files, written, audio, result, aligned, rendered,
          diar, calls, got, puts, hooks, exc, failedAt, raised, http>>

\* lines 517-539: the run fails; its directory is gone, the error webhook
\* is attempted
PairFail(r) ==
    /\ runs' = [runs EXCEPT ![r].pc = "done", ![r].tmp = "removed", ![r].hook = "error"]
    /\ disk' = Cleanup(disk, r)

\* lines 340-343: the run's own temporary directory
PairSetup(r) ==
    /\ pc = "pair"
    /\ runs[r].pc = "setup"
    /\ runs' = [runs EXCEPT ![r].pc = "work", ![r].tmp = "exists"]
    /\ UNCHANGED <<bucket, disk>>
    /\ UNCHANGED Solo

\* lines 350-466: download, audio, transcription, alignment, diarization;
\* they write under tmp_dir only
PairWork(r) ==
    /\ pc = "pair"
    /\ runs[r].pc = "work"
    /\ \/ /\ runs' = [runs EXCEPT ![r].pc = "render"]
          /\ UNCHANGED disk
       \/ PairFail(r)
    /\ UNCHANGED bucket
    /\ UNCHANGED Solo

\* lines 469-496: md_out and json_out are written
PairRender(r) ==
    /\ pc = "pair"
    /\ runs[r].pc = "render"
    /\ LET md == Normalize(PairOut(r, ".md"))
           js == Normalize(PairOut(r, ".json"))
       IN  \/ /\ Front(md) \notin PairDirs
              /\ PairFail(r)
           \/ /\ Front(md) \in PairDirs
              /\ runs' = [runs EXCEPT ![r].pc = "put_md", ![r].wrote = @ \cup {md, js}]
              /\ disk' = Put(Put(disk, md, r), js, r)
    /\ UNCHANGED bucket
    /\ UNCHANGED Solo

\* lines 226-233: s3.upload_file(str(md), bucket, f"results/{md.name}")
PairPutMd(r) ==
    /\ pc = "pair"
    /\ runs[r].pc = "put_md"
    /\ LET key == UploadKey(PairOut(r, ".md"))
       IN  \/ /\ runs' = [runs EXCEPT ![r].pc = "put_json", ![r].keys = @ \cup {key},
                                      ![r].md_key = key]
              /\ bucket' = Put(bucket, key, r)
              /\ UNCHANGED disk
           \/ /\ PairFail(r)
              /\ UNCHANGED bucket
    /\ UNCHANGED Solo

\* lines 235-244: s3.upload_file(str(js), bucket, f"results/{js.name}")
PairPutJson(r) ==
    /\ pc = "pair"
    /\ runs[r].pc = "put_json"
    /\ LET key == UploadKey(PairOut(r, ".json"))
       IN  \/ /\ runs' = [runs EXCEPT ![r].pc = "notify", ![r].keys = @ \cup {key},
                                      ![r].json_key = key]
              /\ bucket' = Put(bucket, key, r)
              /\ UNCHANGED disk
           \/ /\ PairFail(r)
              /\ UNCHANGED bucket
    /\ UNCHANGED Solo

\* lines 503-514: the "done" webhook, then the `with` block ends
PairNotify(r) ==
    /\ pc = "pair"
    /\ runs[r].pc = "notify"
    /\ \/ /\ runs' = [runs EXCEPT ![r].pc = "done", ![r].tmp = "removed", ![r].hook = "done"]
          /\ disk' = Cleanup(disk, r)
       \/ PairFail(r)
    /\ UNCHANGED bucket
    /\ UNCHANGED Solo

NextPair ==
    \/ \E r \in PairRuns : PairSetup(r)
    \/ \E r \in PairRuns : PairWork(r)
    \/ \E r \in PairRuns : PairRender(r)
    \/ \E r \in PairRuns : PairPutMd(r)
    \/ \E r \in PairRuns : PairPutJson(r)
    \/ \E r \in PairRuns : PairNotify(r)

SpecPair == InitPair /\ [][NextPair]_vars

----------------------------------------------------------------------------
\* write_markdown on its own, on transcripts of any shape

\* a word of an input transcript: its label and whether its text is blank
WordChoices == [speaker : {"ABSENT"} \cup Speakers, blank : BOOLEAN]

\* the words of a transcript, before they are spread over segments
FlatInputs == UNION {[1..n -> WordChoices] : n \in 0..MaxWords}

\* the k-th word: text " k " or " ", starting k seconds in
InputWord(ws, k) ==
    [text |-> IF ws[k].blank THEN <<" ">> ELSE <<" ">> \o Decimal(k) \o <<" ">>,
     start |-> 2 * k,
     speaker |-> ws[k].speaker]

\* how the segments of an input transcript are labelled
SegmentLabelings == {"none", "same", "alternate"}

SegmentLabel(sp, i) ==
    CASE sp = "none" -> "ABSENT"
      [] sp = "same" -> "S1"
      [] sp = "alternate" -> IF i % 2 = 1 THEN "S1" ELSE "S2"

\* segment i holds the words after cut[i-1] up to cut[i]; it ends half a
\* second after its last word started, or after its own start without words
InputSegment(ws, cut, sp, i) ==
    LET from == IF i = 1 THEN 1 ELSE cut[i - 1] + 1
    IN  [start |-> 2 * from,
         end |-> 2 * (IF cut[i] < from THEN from ELSE cut[i]) + 1,
         text |-> <<" ", "s", " ">>,
         speaker |-> SegmentLabel(sp, i),
         words |-> [k \in 1..(cut[i] - from + 1) |-> InputWord(ws, from + k - 1)]]

\* a transcript of one segment that ends at t, with one word starting at t
TimedTranscript(t) ==
    <<[start |-> 0, end |-> t, text |-> <<"s">>, speaker |-> "ABSENT",
       words |-> <<[text |-> <<"t">>, start |-> t, speaker |-> "ABSENT"]>>]>>

InitRender ==
    /\ \/ \E n \in 0..MaxSegs, ws \in FlatInputs :
            \E cut \in [1..n -> 0..Len(ws)], sp \in SegmentLabelings :
                /\ \A i \in 1..n : i > 1 => cut[i - 1] <= cut[i]
                /\ IF n = 0 THEN ws = <<>> ELSE cut[n] = Len(ws)
                /\ result = [i \in 1..n |-> InputSegment(ws, cut, sp, i)]
       \/ \E t \in 0..(2 * TIMEOUT) : result = TimedTranscript(t)
    /\ pc = "utils"
    /\ rendered = NoDoc
    /\ job = NoJob
    /\ env = [url |-> [origin |-> TRUE, segs |-> 1, slashes |-> 0], secret |-> "k"]
    /\ tmp = "none"
    /\ files = {}
    /\ written = {}
    /\ audio = <<>>
    /\ aligned = <<>>
    /\ diar = "not run"
    /\ calls = <<>>
    /\ got = <<>>
    /\ puts = <<>>
    /\ hooks = <<>>
    /\ exc = "none"
    /\ failedAt = "none"
    /\ raised = "none"
    /\ http = NoRequest
    /\ runs = <<>>
    /\ bucket = {}
    /\ disk = {}

\* utils.py lines 15-76: write_markdown(result, md_out)
RenderTranscript ==
    /\ pc = "utils"
    /\ pc' = "written"
    /\ rendered' = write_markdown(result)
    /\ UNCHANGED <<job, env, tmp, files, written, audio, result, aligned, diar,
                   calls, got, puts, hooks, exc, failedAt, raised>>
    /\ UNCHANGED outer

NextRender == RenderTranscript

SpecRender == InitRender /\ [][NextRender]_vars

----------------------------------------------------------------------------
\* Vocabulary of the properties

StorageOps == {"download", "upload_md", "upload_json"}

ModelOps == {"load_model", "transcribe", "load_align_model", "align",
             "DiarizationPipeline", "diarize", "assign_word_speakers"}

\* the pipeline stage a collaborator call belongs to
StageOf(op) ==
    CASE op = "download" -> "fetch"
      [] op \in {"probe", "extract", "duration"} -> "prepare"
      [] op \in {"load_model", "transcribe"} -> "transcribe"
      [] op \in {"load_align_model", "align"} -> "align"
      [] op \in {"DiarizationPipeline", "diarize", "assign_word_speakers"} -> "diarize"
      [] op \in {"upload_md", "upload_json"} -> "persist"

StageRank(stage) ==
    CASE stage = "fetch" -> 1
      [] stage = "prepare" -> 2
      [] stage = "transcribe" -> 3
      [] stage = "align" -> 4
      [] stage = "diarize" -> 5
      [] stage = "render" -> 6
      [] stage = "persist" -> 7
      [] stage = "notify" -> 8

Ops == {calls[i].op : i \in DOMAIN calls}

DoneHooks == {i \in DOMAIN hooks : hooks[i].payload.status = "done"}

ErrorHooks == {i \in DOMAIN hooks : hooks[i].payload.status = "error"}

Posts == {i \in DOMAIN hooks : hooks[i].posted}

\* the payload is a JSON object that carries job_id
HasJobId == job.kind = "dict" /\ "job_id" \in job.fields

\* the environment lets a notification reach the receiver
EnvValid == ValidateWebhookUrl(UrlString(env.url)) = "ok" /\ env.secret # ""

----------------------------------------------------------------------------
\* C1: in every run at most one callback delivery (HTTP POST) is attempted;
\* in particular a failed Done delivery is not followed by an Error
\* notification, so the receiver is never sent both.
C1_AtMostOneDelivery == Cardinality(Posts) <= 1

\* C2: a job object missing any of job_id, s3_bucket (the spec's
\* storage_bucket), object_key, media_type ends with an Error notification
\* attempted and without any storage or model call.
C2_MissingFieldFailsBeforeAnyCall ==
    (pc = "done" /\ job.kind = "dict" /\ job.fields # Mandatory)
        => /\ Len(hooks) = 1
           /\ hooks[1].payload.status = "error"
           /\ Ops \cap (StorageOps \cup ModelOps) = {}

\* C3: for a job that carries job_id, a failure at fetch, audio preparation,
\* transcribe, align, render or persist leads to exactly one Error
\* notification with the job's job_id and the failure's message; whether or
\* not it is delivered, no second attempt is made and the caller sees the
\* stage failure, not the delivery failure.
C3_StageFailureNotifiedOnce ==
    (pc = "done" /\ HasJobId
        /\ failedAt \in {"fetch", "prepare", "transcribe", "align", "render", "persist"})
        => /\ Len(hooks) = 1
           /\ hooks[1].payload = ErrorPayload(job.job_id, exc)
           /\ raised = exc

C3_Witness ==
    /\ pc = "done"
    /\ HasJobId
    /\ failedAt = "persist"
    /\ Len(hooks) = 1
    /\ hooks[1].posted
    /\ hooks[1].err = "Unexpected webhook status"


\* every collaborator answered successfully: storage, ffprobe/ffmpeg, the
\* speech models, the local disk and the webhook receiver (204)
AllCollaboratorsOk ==
    /\ \A i \in DOMAIN calls : calls[i].ok /\ calls[i].val # "none"
    /\ diar \in {"ok", "skipped"}
    /\ exc \notin {"Missing AWS credentials", "OSError"}
    /\ EnvValid
    /\ \A i \in DOMAIN hooks : hooks[i].err = "ok"

\* C4: a job with the four mandatory fields and nothing else, all
\* collaborators succeeding and the receiver answering 204: object_key is
\* fetched from the bucket, exactly results/{job_id}.md and
\* results/{job_id}.json are stored there, and exactly one notification
\* {job_id, done, results/{job_id}.md, results/{job_id}.json} is sent.
C4_HappyPath ==
    (pc = "done" /\ job.kind = "dict" /\ job.fields = Mandatory
        /\ job.do_diarize = "absent" /\ AllCollaboratorsOk)
        => /\ got = <<[bucket |-> Bucket, key |-> ObjectKeyPath]>>
           /\ puts = <<[bucket |-> Bucket, key |-> ResultKey(job.job_id, ".md")],
                       [bucket |-> Bucket, key |-> ResultKey(job.job_id, ".json")]>>
           /\ Len(hooks) = 1
           /\ hooks[1].posted
           /\ hooks[1].payload = DonePayload(job.job_id,
                                             ResultKey(job.job_id, ".md"),
                                             ResultKey(job.job_id, ".json"))

DiarizationFailed ==
    diar \in {"no token", "pipeline failed", "diarize failed", "assign failed"}

\* C5: when diarization fails at any point, the run goes on, the result
\* that is rendered is the aligned result unchanged and every rendered
\* speaker label is UNKNOWN.
C5_DiarizationFailureKeepsAlignedResult ==
    (job.fields = Mandatory /\ DiarizationFailed)
        => /\ failedAt # "diarize"
           /\ result = aligned
           /\ \A i \in DOMAIN rendered.paras : rendered.paras[i].label = "UNKNOWN"

\* the calls of a run follow the stage order, none twice; a failed call of a
\* stage other than diarization is the last call; at most one Done
\* notification, only after every earlier stage ran, never after a failure
C6_StageOrder ==
    /\ \A i, j \in DOMAIN calls :
          i < j => /\ StageRank(StageOf(calls[i].op)) <= StageRank(StageOf(calls[j].op))
                   /\ calls[i].op # calls[j].op
    /\ \A i \in DOMAIN calls :
          (~calls[i].ok /\ StageOf(calls[i].op) # "diarize") => i = Len(calls)
    /\ Cardinality(DoneHooks) <= 1
    /\ (failedAt \notin {"none", "notify"}) => DoneHooks = {}
    /\ (DoneHooks # {}) => {"download", "load_model", "transcribe", "load_align_model",
                            "align", "upload_md", "upload_json"} \subseteq Ops

\* once a stage has failed or a notification was attempted, no collaborator
\* call, no download, no upload and no local write follows
C6_FailFast ==
    [][(failedAt # "none" \/ hooks # <<>>)
          => (calls' = calls /\ got' = got /\ puts' = puts /\ written' = written)]_vars

\* C6: stages run in the order fetch, prepare audio, transcribe, align,
\* diarize, render, persist, notify (the Done notification), each at most
\* once, and every stage but diarization is fail-fast: after its failure no
\* later stage and no storage or model call is invoked.
C6_StagesInOrderFailFast == []C6_StageOrder /\ C6_FailFast

C6_Witness ==
    /\ pc = "done"
    /\ failedAt = "align"
    /\ \E i \in DOMAIN calls : calls[i].op = "align" /\ ~calls[i].ok
    /\ Len(hooks) = 1

\* C7: a Done notification is attempted only after both documents were
\* stored, and carries exactly the two stored keys.
C7_DoneAfterBothStored ==
    \A i \in DoneHooks :
        /\ Len(puts) = 2
        /\ puts[1].key = hooks[i].payload.md_key
        /\ puts[2].key = hooks[i].payload.json_key
        /\ \E m, n \in DOMAIN calls :
              /\ calls[m] = Call("upload_md", TRUE)
              /\ calls[n] = Call("upload_json", TRUE)

C7_Witness ==
    /\ pc = "done"
    /\ DoneHooks # {}
    /\ Len(puts) = 2

\* C8: when the run has ended, its temporary directory is gone and every
\* file the run wrote locally was inside that directory.
C8_TempReleasedAndConfined ==
    (pc = "done" /\ tmp # "none")
        => /\ tmp = "removed"
           /\ \A p \in files : ~InTmp(p)
           /\ \A p \in written : InTmp(p)

\* C9: for a job with job_id: ffmpeg extraction runs only after the probe
\* reported an audio stream; a video whose probe reports none ends with one
\* Error notification saying there is no audio track and with no
\* transcribe, align, diarize, upload or Done notification; for
\* media_type audio there is no probe, no extraction, and the fetched file
\* is what goes to transcription.
C9_AudioPreparation ==
    /\ \A i \in DOMAIN calls :
          calls[i].op = "extract"
              => \E j \in DOMAIN calls : j < i /\ calls[j] = Probe(TRUE, "audio")
    /\ (pc = "done" /\ HasJobId
           /\ \E i \in DOMAIN calls : calls[i].op = "probe" /\ calls[i].val = "none")
          => /\ Len(hooks) = 1
             /\ hooks[1].payload = ErrorPayload(job.job_id, NoAudioTrack)
             /\ Ops \cap (ModelOps \cup {"extract", "upload_md", "upload_json"}) = {}
             /\ puts = <<>>
    /\ (job.kind = "dict" /\ "media_type" \in job.fields /\ job.media_type = "audio")
          => /\ Ops \cap {"probe", "extract"} = {}
             /\ ("transcribe" \in Ops => audio = MediaIn /\ MediaIn \in written)

C9_Witness ==
    /\ pc = "done"
    /\ HasJobId
    /\ job.media_type = "video"
    /\ \E i \in DOMAIN calls : calls[i] = Probe(TRUE, "none")
    /\ Len(hooks) = 1
    /\ hooks[1].posted

\* C10: no POST is issued unless WEBHOOK_URL names a route on an origin and
\* WEBHOOK_SECRET is set: an empty or slash-only URL and a bare origin with
\* any number of trailing slashes are rejected before the request, and so
\* is an empty secret; a URL with a route path passes the URL validation.
C10_NoPostWithoutValidConfig ==
    \A i \in DOMAIN hooks :
        /\ hooks[i].posted => (env.url.origin /\ env.url.segs > 0 /\ env.secret # "")
        /\ (env.url.origin /\ env.url.segs > 0)
              => hooks[i].err \notin {"WEBHOOK_URL env var missing",
                                      "WEBHOOK_URL must include route path"}
        /\ (env.url.origin /\ env.url.segs > 0 /\ env.secret # "") => hooks[i].posted

C10_Witness ==
    /\ env.url.origin
    /\ env.url.segs = 0
    /\ env.url.slashes = MaxSlashes
    /\ env.secret # ""
    /\ Len(hooks) = 1
    /\ ~hooks[1].posted
    /\ hooks[1].err = "WEBHOOK_URL must include route path"

----------------------------------------------------------------------------
\* C11: send_webhook returns normally exactly when it made one POST and the
\* receiver answered 204; any other status, other 2xx included, and any
\* transport failure or timeout is an error, and no call makes a second
\* request.
C11_OkIffSinglePost204 ==
    \A i \in DOMAIN hooks :
        /\ hooks[i].err = "ok" <=> (hooks[i].requests = 1 /\ hooks[i].resp = "204")
        /\ hooks[i].requests <= 1
        /\ hooks[i].resp \in {"200", "500", "timeout"} => hooks[i].err # "ok"

C11_Witness ==
    /\ Len(hooks) = 1
    /\ hooks[1].requests = 1
    /\ hooks[1].resp = "200"
    /\ hooks[1].err = "Unexpected webhook status"

ErrorDelivered == \E i \in ErrorHooks : hooks[i].err = "ok"

\* the run failed at a stage of the pipeline, after its payload was parsed
\* into a job object
StageFailed == job.kind = "dict" /\ failedAt \notin {"none", "parse"}

\* C13: on any unrecoverable pipeline failure transcribe_task, once the Error
\* notification has been attempted, raises, and raises the original stage
\* failure, whether that notification was delivered, failed or was not
\* attempted.
C13_RaisesOriginalFailure ==
    (pc = "done" /\ StageFailed) => (raised = exc /\ raised \notin {"none", "returned"})

C13_Witness ==
    /\ pc = "done"
    /\ StageFailed
    /\ failedAt = "fetch"
    /\ Len(hooks) = 1
    /\ hooks[1].payload.status = "error"
    /\ hooks[1].err = "Webhook request failed"
    /\ raised = exc

\* C14 as stated: after a stage failure whose Error notification was
\* delivered (204), transcribe_task returns normally instead of raising.
C14_AbsorbsDeliveredFailure ==
    (pc = "done" /\ StageFailed /\ ErrorDelivered) => raised = "returned"

\* C14: after a stage failure whose Error notification was delivered (204),
\* transcribe_task still raises the stage failure to its caller; delivery of
\* the notification does not absorb it.
C14_DeliveredFailureStillRaised ==
    (pc = "done" /\ StageFailed /\ ErrorDelivered) => (raised # "returned" /\ raised = exc)

C14_Witness ==
    /\ pc = "done"
    /\ StageFailed
    /\ failedAt = "align"
    /\ ErrorDelivered
    /\ raised = exc

\* enqueue has answered the request
Answered == http.answer # "none"

\* the runs enqueue started
Spawned == {i \in DOMAIN http.spawns : http.spawns[i].ok}

\* C15: every body that parses as JSON, whatever its JSON type, gets exactly
\* one run spawned with the raw body and, once spawn accepted it, the queued
\* answer, given before the run has taken a step; every body that does not
\* parse gets no run and an error answer.
C15_AnyJsonSpawnsOneRun ==
    Answered =>
        /\ http.body.kind # "invalid" =>
              /\ Len(http.spawns) = 1
              /\ http.spawns[1].arg = http.body
              /\ http.spawns[1].ok => (http.answer = "queued" /\ http.code = 202)
        /\ http.body.kind = "invalid" =>
              /\ http.spawns = <<>>
              /\ http.answer # "queued"

\* what enqueue does: bodies that parse to a JSON object are spawned once
\* and answered queued when spawn accepted them; bodies that do not parse
\* are answered 400 and JSON values that are not objects 500, without a run
EnqueueObjectsOnly ==
    /\ Answered =>
        /\ http.body.kind = "dict" =>
              /\ Len(http.spawns) = 1
              /\ http.spawns[1].arg = http.body
              /\ (http.answer = "queued" /\ http.code = 202) <=> http.spawns[1].ok
              /\ http.spawns[1].ok => job = http.body
        /\ http.body.kind = "invalid" =>
              /\ http.spawns = <<>>
              /\ http.answer = "Invalid JSON" /\ http.code = 400
        /\ http.body.kind \in {"falsy", "truthy"} =>
              /\ http.spawns = <<>>
              /\ http.answer = "Internal server error" /\ http.code = 500
    /\ (pc \notin {"ingress", "rejected"} /\ http # NoRequest) => http.answer = "queued"
    /\ pc = "rejected" => (Spawned = {} /\ calls = <<>> /\ hooks = <<>>)

\* the object stored under key k was written by run r
StoredBy(k, r) == \E o \in bucket : o.name = k /\ o.by = r

\* one run's job_id is a plain name: no directory part, no ".."
PlainId(jid) == Len(jid) = 1

\* C16: two concurrent runs with distinct job_id never write the same
\* storage key nor the same local file, under any interleaving, and the
\* artifacts a finished run reported are the ones it stored, as if it had
\* run alone.
C16_ConcurrentRunsIsolated ==
    pc = "pair" =>
        /\ runs[1].keys \cap runs[2].keys = {}
        /\ runs[1].wrote \cap runs[2].wrote = {}
        /\ \A r \in PairRuns :
              runs[r].hook = "done" =>
                  StoredBy(runs[r].md_key, r) /\ StoredBy(runs[r].json_key, r)

\* what holds: two runs whose job_ids are plain names are isolated
PlainIdsIsolated ==
    (pc = "pair" /\ PlainId(runs[1].job_id) /\ PlainId(runs[2].job_id)) =>
        C16_ConcurrentRunsIsolated

----------------------------------------------------------------------------
\* Vocabulary of the renderer's properties

\* the document of a transcript without segments: no paragraph, "Total
\* segments: 0", "Duration: N/A"
EmptyDoc == [paras |-> <<>>, total |-> 0, duration |-> NotAvailable]

\* transcription and alignment ran and returned no segment
ZeroSegments ==
    /\ result = <<>>
    /\ \E i \in DOMAIN calls : calls[i].op = "align" /\ calls[i].ok

\* a word the renderer does not skip
NonBlank(w) == Strip(w.text) # <<>>

\* every word of every segment, in order
RECURSIVE WordsOf(_)
WordsOf(segs) ==
    IF segs = <<>> THEN <<>> ELSE Head(segs).words \o WordsOf(Tail(segs))

\* the words of the transcript that carry text, in order
Spoken == SelectSeq(WordsOf(result), NonBlank)

\* the texts of all paragraphs, in order
RECURSIVE AllWords(_)
AllWords(paras) ==
    IF paras = <<>> THEN <<>> ELSE Head(paras).words \o AllWords(Tail(paras))

\* the label each text was printed under, in order
RECURSIVE LabelPerWord(_)
LabelPerWord(paras) ==
    IF paras = <<>> THEN <<>>
    ELSE Repeat(Head(paras).label, Len(Head(paras).words)) \o LabelPerWord(Tail(paras))

\* the label or UNKNOWN
LabelOf(x) == IF x.speaker = "ABSENT" THEN "UNKNOWN" ELSE x.speaker

\* how often the label changes from one element of xs to the next
Changes(xs) == Cardinality({i \in 1..(Len(xs) - 1) : LabelOf(xs[i]) # LabelOf(xs[i + 1])})

\* the number a string of decimal digits denotes, -1 if it is not one
RECURSIVE ParseDecimal(_)
ParseDecimal(ds) ==
    IF ds = <<>> THEN -1
    ELSE IF \A i \in DOMAIN DecimalDigits : DecimalDigits[i] # Last(ds) THEN -1
    ELSE LET d == (CHOOSE i \in DOMAIN DecimalDigits : DecimalDigits[i] = Last(ds)) - 1
         IN  IF Len(ds) = 1 THEN d
             ELSE IF ParseDecimal(Front(ds)) = -1 THEN -1
             ELSE 10 * ParseDecimal(Front(ds)) + d

\* the renderer was given a transcript and has written its document
Written == pc = "written"

\* C17 as stated: with zero segments the renderer fails and writes no
\* document, so the run ends with an error and stores no artifact.
C17_ZeroSegmentsFail ==
    (pc = "done" /\ ZeroSegments /\ failedAt \notin {"align", "diarize"})
        => /\ rendered = NoDoc
           /\ puts = <<>>
           /\ exc # "none"

\* C17: with zero segments the renderer does not fail: it writes a document
\* with no paragraph, "Total segments: 0" and "Duration: N/A"; a run whose
\* transcription returned no segment goes on to store both artifacts and to
\* send Done when every collaborator succeeds.
C17_ZeroSegmentsRendered ==
    /\ (ZeroSegments /\ pc \in {"persist", "notify"}) => rendered = EmptyDoc
    /\ (pc = "done" /\ ZeroSegments /\ rendered # NoDoc) => rendered = EmptyDoc
    /\ (pc = "done" /\ ZeroSegments /\ job.fields = Mandatory
            /\ job.job_id = <<"j1">> /\ AllCollaboratorsOk)
        => /\ rendered = EmptyDoc
           /\ Len(puts) = 2
           /\ Len(hooks) = 1
           /\ hooks[1].payload.status = "done"
           /\ raised = "returned"

C17_Witness ==
    /\ pc = "done"
    /\ ZeroSegments
    /\ rendered = EmptyDoc
    /\ Len(puts) = 2
    /\ Len(hooks) = 1
    /\ hooks[1].payload.status = "done"
    /\ hooks[1].err = "ok"
    /\ raised = "returned"

C19_HoursMinutesSeconds ==
    (Written /\ result # <<>>)
        => LET d == rendered.duration
               total == Last(result).end \div 2
           IN  /\ Len(d) = 8
               /\ d[3] = ":" /\ d[6] = ":"
               /\ ParseDecimal(SubSeq(d, 1, 2)) = total \div 3600
               /\ ParseDecimal(SubSeq(d, 4, 5)) = (total \div 60) % 60
               /\ ParseDecimal(SubSeq(d, 7, 8)) = total % 60

\* C19: for every t from 0 to the 6-hour ceiling format_timestamp gives
\* MM:SS of t truncated to whole seconds: SS is two digits in 00..59, MM is
\* the whole minutes, floor(t / 60), zero-padded to two digits and not
\* wrapped at 60 (three digits from 100 minutes on); there is no hours
\* field.
C19_MinutesSeconds ==
    (Written /\ result # <<>>)
        => LET d == rendered.duration
               total == Last(result).end \div 2
               n == Len(d)
           IN  /\ n >= 5
               /\ d[n - 2] = ":"
               /\ \A i \in 1..n : i # n - 2 => d[i] # ":"
               /\ ParseDecimal(SubSeq(d, n - 1, n)) = total % 60
               /\ ParseDecimal(SubSeq(d, 1, n - 3)) = total \div 60
               /\ (n > 5 => d[1] # "0")
               /\ rendered.paras # <<>> =>
                     ParseDecimal(SubSeq(rendered.paras[1].ts, 1, Len(rendered.paras[1].ts) - 3))
                         = (Spoken[1].start \div 2) \div 60

\* one hour and half a second is "60:00"
C19_Witness ==
    /\ Written
    /\ result = TimedTranscript(2 * 3600 + 1)
    /\ rendered.duration = <<"6", "0", ":", "0", "0">>

\* C20 as stated: a word without a label is printed under its segment's
\* label (UNKNOWN only when the segment has none either), and a segment
\* without words still contributes its label and its trimmed text.
C20_SegmentFallback ==
    Written
        => /\ LabelPerWord(rendered.paras)
                = [i \in 1..Len(SelectSeq(FlatWordsInherit(result), NonBlank)) |->
                      LabelOf(SelectSeq(FlatWordsInherit(result), NonBlank)[i])]
           /\ \A i \in DOMAIN result :
                 result[i].words = <<>> =>
                     \E k \in DOMAIN rendered.paras :
                        /\ rendered.paras[k].label = LabelOf(result[i])
                        /\ \E j \in DOMAIN rendered.paras[k].words :
                              rendered.paras[k].words[j] = Strip(result[i].text)

\* C20: a word without a label is printed under UNKNOWN whatever the label
\* of its segment; a segment without words contributes nothing to the
\* turns and is only counted in the total of segments.
C20_NoSegmentFallback ==
    Written
        => /\ LabelPerWord(rendered.paras)
                = [i \in 1..Len(Spoken) |->
                      IF Spoken[i].speaker = "ABSENT" THEN "UNKNOWN" ELSE Spoken[i].speaker]
           /\ Len(AllWords(rendered.paras)) = Len(Spoken)
           /\ \A k \in DOMAIN rendered.paras : \A i \in DOMAIN result :
                 \A j \in DOMAIN rendered.paras[k].words :
                    rendered.paras[k].words[j] # Strip(result[i].text)
           /\ rendered.total = Len(result)

\* a labelled segment without words, then a labelled segment whose only
\* word has no label
C20_Witness ==
    /\ Written
    /\ Len(result) = 2
    /\ result[1].speaker = "S1" /\ result[1].words = <<>>
    /\ result[2].speaker = "S1" /\ Len(result[2].words) = 1
    /\ result[2].words[1].speaker = "ABSENT"
    /\ Len(rendered.paras) = 1
    /\ rendered.paras[1].label = "UNKNOWN"
    /\ rendered.total = 2

\* the seconds a "MM:SS" string stands for
SecondsOf(d) ==
    60 * ParseDecimal(SubSeq(d, 1, Len(d) - 3)) + ParseDecimal(SubSeq(d, Len(d) - 1, Len(d)))

\* C21 as stated: the footer reports the number of segments and, as the
\* duration, the end of the last segment minus the start of the first.
C21_DurationIsSpan ==
    (Written /\ result # <<>>)
        => /\ rendered.total = Len(result)
           /\ SecondsOf(rendered.duration) = (Last(result).end - Head(result).start) \div 2

\* C21: the footer reports the number of segments and, as the duration, the
\* end of the last segment alone, whatever the start of the first, in the
\* MM:SS form of the timestamps; without segments it reports 0 and N/A.
C21_DurationIsLastEnd ==
    Written
        => /\ rendered.total = Len(result)
           /\ result # <<>> =>
                 /\ SecondsOf(rendered.duration) = Last(result).end \div 2
                 /\ rendered.duration[Len(rendered.duration) - 2] = ":"
           /\ result = <<>> => rendered.duration = NotAvailable

\* two segments, the first starting one second in, the last ending at 2.5 s
C21_Witness ==
    /\ Written
    /\ Len(result) = 2
    /\ Head(result).start = 2
    /\ Last(result).end = 5
    /\ rendered.total = 2
    /\ rendered.duration = <<"0", "0", ":", "0", "2">>

----------------------------------------------------------------------------
\* the calls of the diarization step
DiarOps == {"DiarizationPipeline", "diarize", "assign_word_speakers"}

Called(op) == \E i \in DOMAIN calls : calls[i].op = op

CalledOk(op) == \E i \in DOMAIN calls : calls[i].op = op /\ calls[i].ok

\* the run has reached the end of the diarization step
PastDiarize == diar # "not run"

\* C22 as stated: diarization is invoked in a run exactly when do_diarize
\* is true or absent and the align stage succeeded.
C22_DiarizeIffRequested ==
    pc = "done" =>
        ((\E op \in DiarOps : Called(op)) <=> (DoDiarize(job) /\ CalledOk("align")))

\* C22: a diarization call is made only when do_diarize is true or absent
\* and the align stage succeeded; under these conditions the diarization
\* pipeline is built exactly when HF_TOKEN is set, it is run exactly when it
\* was built, and speakers are assigned exactly when it returned. When
\* do_diarize is false no diarization call is made and the aligned result
\* is rendered as it is.
C22_DiarizeWhenRequestedAndToken ==
    /\ \A op \in DiarOps : Called(op) => (DoDiarize(job) /\ CalledOk("align") /\ diar # "no token")
    /\ PastDiarize =>
          /\ CalledOk("align")
          /\ Called("DiarizationPipeline") <=> (DoDiarize(job) /\ diar # "no token")
          /\ Called("diarize") <=> CalledOk("DiarizationPipeline")
          /\ Called("assign_word_speakers") <=> CalledOk("diarize")
          /\ ~DoDiarize(job) =>
                /\ diar = "skipped"
                /\ result = aligned
                /\ rendered # NoDoc => rendered = write_markdown(aligned)

\* diarization was requested, alignment succeeded, HF_TOKEN is missing: no
\* diarization call, and the run still ends with Done
C22_Witness ==
    /\ pc = "done"
    /\ job.do_diarize = "true"
    /\ CalledOk("align")
    /\ diar = "no token"
    /\ \A op \in DiarOps : ~Called(op)
    /\ raised = "returned"

----------------------------------------------------------------------------
\* the probe call of the run, when there is one
ProbeCalls == {i \in DOMAIN calls : calls[i].op = "probe"}

\* C23 as stated: the "no audio track" error is produced only when the
\* probe ran successfully and found no audio stream; a failure of the probe
\* itself or of the extraction is reported with a different error.
C23_NoAudioOnlyFromProbeResult ==
    /\ exc = NoAudioTrack => \E i \in ProbeCalls : calls[i] = Probe(TRUE, "none")
    /\ (\E i \in ProbeCalls : ~calls[i].ok) => exc # NoAudioTrack
    /\ (failedAt = "prepare" /\ Called("extract")) => exc # NoAudioTrack

\* C23: the "no audio track" error is produced when the probe found no
\* audio stream and also when ffprobe itself exited with a failure, which
\* has_audio_stream turns into "no audio"; it is never produced once the
\* extraction has been started. A failed extraction, and an ffprobe that
\* could not be started at all, are reported with a different error. All of
\* them are fatal.
C23_NoAudioAlsoFromProbeFailure ==
    /\ exc = NoAudioTrack =>
          /\ failedAt = "prepare"
          /\ \E i \in ProbeCalls : calls[i].val = "none" /\ i = Len(calls)
          /\ ~Called("extract")
    /\ (\E i \in ProbeCalls : calls[i].val = "none") => exc = NoAudioTrack
    /\ (\E i \in ProbeCalls : calls[i].val = "raised")
          => (failedAt = "prepare" /\ exc = "ffprobe could not be run")
    /\ (failedAt = "prepare" /\ Called("extract"))
          => (~CalledOk("extract") /\ exc = "ffmpeg failed")
    /\ (\E i \in ProbeCalls : calls[i].val # "audio") => ~Called("transcribe")

\* ffprobe exited with a failure and the run's error says "no audio track"
C23_Witness ==
    /\ pc = "done"
    /\ HasJobId
    /\ \E i \in ProbeCalls : calls[i] = Probe(FALSE, "none")
    /\ exc = NoAudioTrack
    /\ Len(hooks) = 1
    /\ hooks[1].payload = ErrorPayload(job.job_id, NoAudioTrack)

----------------------------------------------------------------------------
\* C24: whenever a run attempts an Error notification it has stored neither
\* results/{job_id}.md nor results/{job_id}.json: an Error notification and
\* stored artifacts of one run never coexist.
C24_ErrorExcludesArtifacts == ErrorHooks # {} => puts = <<>>

\* what holds: an Error notification comes with stored artifacts only after
\* a JSON upload that failed behind a stored document, or after a Done
\* notification that failed behind both
ErrorWithArtifactsOnlyLate ==
    (ErrorHooks # {} /\ puts # <<>>)
        => \/ failedAt = "persist" /\ Len(puts) = 1 /\ Called("upload_json")
           \/ failedAt = "notify" /\ Len(puts) = 2 /\ DoneHooks # {}

\* C25: a payload that is not parseable JSON leads to no storage call, no
\* model call, no notification attempt and no temporary directory, and the
\* run raises the parse failure to its caller.
C25_InvalidPayloadRaisesUntouched ==
    job.kind = "invalid"
        => /\ calls = <<>>
           /\ got = <<>>
           /\ puts = <<>>
           /\ hooks = <<>>
           /\ tmp = "none"
           /\ written = {}
           /\ files = {}
           /\ pc \in {"parse", "done"}
           /\ pc = "done" => (raised = "JSONDecodeError" /\ exc = "JSONDecodeError")

C25_Witness ==
    /\ job.kind = "invalid"
    /\ pc = "done"
    /\ raised = "JSONDecodeError"
    /\ hooks = <<>>
    /\ calls = <<>>
    /\ tmp = "none"

====
